---------------------------- MODULE Spec2Model ----------------------------
(* Model of the board engine of src/minesweeper.py (class Minesweeper):    *)
(* construction, mine placement, neighbour counts, reveal with flood fill, *)
(* flag toggling and win detection.  Cells are pairs <<row, col>>.         *)
EXTENDS Integers, FiniteSets, Sequences, TLC

(* ------------------------------ bounds --------------------------------- *)
MaxRows == 3
MaxCols == 3
MaxCells == 6
MaxMines == 1
\* bounds of the specification that runs the flood fill one iteration at a time
StepMaxRows == 2
StepMaxCols == 4
StepMaxCells == 8
StepMaxCalls == 2

VARIABLES
    status,           \* "none" before the constructor ran, "ok", or "error"
    error,            \* message of the ValueError raised by __init__, "" if none
    args,             \* the arguments the constructor was called with
    rows, cols, mine_count,
    mines, revealed, flags,
    neighbor_counts,  \* function: non-mine cell -> count
    last,             \* the last call made on the engine and what it returned
    pc,               \* "idle", or "loop" while reveal is inside its while-loop
    queue,            \* the work queue of the reveal call in progress
    iters,            \* cells taken off the queue by the reveal call in progress
    marks,            \* cells the reveal call in progress has added, in order
    calls,            \* engine calls made so far (stepwise specification only)
    phase             \* where the driver loop of main() is: "none" before the
                      \* game exists, "playing", "lost", "won", "quit" or "exit"

\* the engine and the record of the last call
engine == <<status, error, args, rows, cols, mine_count, mines, revealed, flags,
            neighbor_counts, last>>

\* the position inside a reveal call and the position of the driver
control == <<pc, queue, iters, marks, calls, phase>>

vars == <<status, error, args, rows, cols, mine_count, mines, revealed, flags,
          neighbor_counts, last, pc, queue, iters, marks, calls, phase>>

(* --------------------------- pure helpers ------------------------------ *)
DimensionsMessage == "rows and cols must be positive"
MineCountMessage == "mine_count must be between 1 and rows*cols - 1"

NoCall == [op |-> "none", row |-> 0, col |-> 0, ret |-> "None"]

Bool(b) == IF b THEN "True" ELSE "False"

\* init_error with the upper check on the mine count off by one
init_error_offbyone(r, c, mc) ==
    IF r <= 0 \/ c <= 0 THEN DimensionsMessage
    ELSE IF mc <= 0 \/ mc > r * c THEN MineCountMessage
    ELSE ""

\* the two checks at the top of __init__: the message raised, "" when none is
init_error(r, c, mc) ==
    IF r <= 0 \/ c <= 0 THEN DimensionsMessage
    ELSE IF mc <= 0 \/ mc >= r * c THEN MineCountMessage
    ELSE ""

\* all cells of an R x C grid
Cells(R, C) == (0 .. R - 1) \X (0 .. C - 1)

\* the (dr, dc) pairs in the order the two nested loops of neighbors() visit them
Offsets == << <<-1, -1>>, <<-1, 0>>, <<-1, 1>>,
              << 0, -1>>,            << 0, 1>>,
              << 1, -1>>, << 1, 0>>, << 1, 1>> >>

RECURSIVE NeighborsFrom(_, _, _, _, _)
NeighborsFrom(i, row, col, R, C) ==
    IF i > Len(Offsets) THEN <<>>
    ELSE LET nr == row + Offsets[i][1]
             nc == col + Offsets[i][2]
             rest == NeighborsFrom(i + 1, row, col, R, C)
         IN IF 0 <= nr /\ nr < R /\ 0 <= nc /\ nc < C
            THEN <<(<<nr, nc>>)>> \o rest
            ELSE rest

\* neighbors yielding only the cells of the same row or column
neighbors_fourway(row, col, R, C) ==
    SelectSeq(NeighborsFrom(1, row, col, R, C), LAMBDA n : n[1] = row \/ n[2] = col)

\* neighbors without the test against the grid bounds
neighbors_unbounded(row, col, R, C) ==
    [i \in 1 .. Len(Offsets) |-> <<row + Offsets[i][1], col + Offsets[i][2]>>]

\* neighbors(row, col): the in-bounds neighbours, in generation order
neighbors(row, col, R, C) == NeighborsFrom(1, row, col, R, C)

Range(s) == {s[i] : i \in DOMAIN s}

\* _place_mines with row and column exchanged
place_mines_swapped(choices, C) == {<<idx % C, idx \div C>> : idx \in choices}

\* _compute_neighbor_counts counting only the mines of the same row or column
compute_neighbor_counts_orthogonal(R, C, M) ==
    [cell \in Cells(R, C) \ M |->
        Cardinality({n \in Range(neighbors(cell[1], cell[2], R, C)) :
                        n \in M /\ (n[1] = cell[1] \/ n[2] = cell[2])})]

\* _place_mines: idx -> (idx // cols, idx % cols) for every sampled index
place_mines(choices, C) == {<<idx \div C, idx % C>> : idx \in choices}

\* _compute_neighbor_counts: defined on the non-mine cells only
compute_neighbor_counts(R, C, M) ==
    [cell \in Cells(R, C) \ M |->
        Cardinality({n \in Range(neighbors(cell[1], cell[2], R, C)) : n \in M})]

\* self.neighbor_counts.get(cell, 0)
CountOf(nc, cell) == IF cell \in DOMAIN nc THEN nc[cell] ELSE 0

\* the neighbours the inner for-loop of reveal appends to the queue
Enqueued(cell, rev, flg, R, C) ==
    SelectSeq(neighbors(cell[1], cell[2], R, C),
              LAMBDA n : n \notin rev /\ n \notin flg)

\* LoopStep enqueueing the neighbours whatever the count of the cell
LoopStep_alwaysEnqueue(st, flg, nc, R, C) ==
    LET cur == Head(st.queue)
        q == Tail(st.queue)
    IN IF cur \in st.revealed \/ cur \in flg
       THEN [queue |-> q, revealed |-> st.revealed, added |-> <<>>]
       ELSE LET rev == st.revealed \cup {cur}
            IN [queue |-> q \o Enqueued(cur, rev, flg, R, C), revealed |-> rev,
                added |-> <<cur>>]

\* LoopStep without the revealed/flagged test on the dequeued cell
LoopStep_nocheck(st, flg, nc, R, C) ==
    LET cur == Head(st.queue)
        q == Tail(st.queue)
        rev == st.revealed \cup {cur}
    IN IF CountOf(nc, cur) = 0
       THEN [queue |-> q \o Enqueued(cur, rev, flg, R, C), revealed |-> rev,
             added |-> <<cur>>]
       ELSE [queue |-> q, revealed |-> rev, added |-> <<cur>>]

\* LoopStep cascading from cells whose count is at most one
LoopStep_cascadeOnOne(st, flg, nc, R, C) ==
    LET cur == Head(st.queue)
        q == Tail(st.queue)
    IN IF cur \in st.revealed \/ cur \in flg
       THEN [queue |-> q, revealed |-> st.revealed, added |-> <<>>]
       ELSE LET rev == st.revealed \cup {cur}
            IN IF CountOf(nc, cur) <= 1
               THEN [queue |-> q \o Enqueued(cur, rev, flg, R, C), revealed |-> rev,
                     added |-> <<cur>>]
               ELSE [queue |-> q, revealed |-> rev, added |-> <<cur>>]

\* one iteration of the while-loop of reveal on (queue, revealed); added is
\* the cell revealed.add was called with in this iteration, if any
LoopStep(st, flg, nc, R, C) ==
    LET cur == Head(st.queue)
        q == Tail(st.queue)
    IN IF cur \in st.revealed \/ cur \in flg
       THEN [queue |-> q, revealed |-> st.revealed, added |-> <<>>]
       ELSE LET rev == st.revealed \cup {cur}
            IN IF CountOf(nc, cur) = 0
               THEN [queue |-> q \o Enqueued(cur, rev, flg, R, C), revealed |-> rev,
                     added |-> <<cur>>]
               ELSE [queue |-> q, revealed |-> rev, added |-> <<cur>>]

\* the while-loop of reveal, run until the queue is empty
RECURSIVE FloodFill(_, _, _, _, _)
FloodFill(st, flg, nc, R, C) ==
    IF st.queue = <<>> THEN st.revealed
    ELSE FloodFill(LoopStep(st, flg, nc, R, C), flg, nc, R, C)

\* reveal without the early return on a flagged cell
reveal_noflagguard(cell, M, rev, flg, nc, R, C) ==
    IF cell \in rev
    THEN [revealed |-> rev, ret |-> TRUE]
    ELSE IF cell \in M
    THEN [revealed |-> rev \cup {cell}, ret |-> FALSE]
    ELSE [revealed |-> FloodFill([queue |-> <<cell>>, revealed |-> rev], flg, nc, R, C),
          ret |-> TRUE]

\* reveal without the early return on a revealed cell
reveal_norevealedguard(cell, M, rev, flg, nc, R, C) ==
    IF cell \in flg
    THEN [revealed |-> rev, ret |-> TRUE]
    ELSE IF cell \in M
    THEN [revealed |-> rev \cup {cell}, ret |-> FALSE]
    ELSE [revealed |-> FloodFill([queue |-> <<cell>>, revealed |-> rev], flg, nc, R, C),
          ret |-> TRUE]

\* reveal running the flood fill from a mine before returning False
reveal_minecascade(cell, M, rev, flg, nc, R, C) ==
    IF cell \in flg \/ cell \in rev
    THEN [revealed |-> rev, ret |-> TRUE]
    ELSE [revealed |-> FloodFill([queue |-> <<cell>>, revealed |-> rev], flg, nc, R, C),
          ret |-> cell \notin M]

\* reveal assigning {cell} to the revealed set on a mine instead of adding to it
reveal_mineassign(cell, M, rev, flg, nc, R, C) ==
    IF cell \in flg \/ cell \in rev
    THEN [revealed |-> rev, ret |-> TRUE]
    ELSE IF cell \in M
    THEN [revealed |-> {cell}, ret |-> FALSE]
    ELSE [revealed |-> FloodFill([queue |-> <<cell>>, revealed |-> rev], flg, nc, R, C),
          ret |-> TRUE]

\* reveal(row, col) as a function of the state: the new revealed set and the result
reveal(cell, M, rev, flg, nc, R, C) ==
    IF cell \in flg \/ cell \in rev
    THEN [revealed |-> rev, ret |-> TRUE]
    ELSE IF cell \in M
    THEN [revealed |-> rev \cup {cell}, ret |-> FALSE]
    ELSE [revealed |-> FloodFill([queue |-> <<cell>>, revealed |-> rev], flg, nc, R, C),
          ret |-> TRUE]

\* toggle_flag that only ever adds the flag
toggle_flag_addonly(cell, rev, flg) ==
    IF cell \in rev THEN flg
    ELSE flg \cup {cell}

\* toggle_flag without its guard on revealed cells
toggle_flag_noguard(cell, rev, flg) ==
    IF cell \in flg THEN flg \ {cell}
    ELSE flg \cup {cell}

\* toggle_flag(row, col) as a function of the state: the new flag set
toggle_flag(cell, rev, flg) ==
    IF cell \in rev THEN flg
    ELSE IF cell \in flg THEN flg \ {cell}
    ELSE flg \cup {cell}

\* is_won counting flagged cells as done
is_won_countsflags(rev, R, C, mc) == Cardinality(rev \cup flags) = R * C - mc

\* is_won comparing against the whole grid
is_won_nomines(rev, R, C, mc) == Cardinality(rev) = R * C

\* is_won()
is_won(rev, R, C, mc) == Cardinality(rev) = R * C - mc

(* ------------------------------ actions -------------------------------- *)
Init ==
    /\ status = "none"
    /\ error = ""
    /\ args = [rows |-> 0, cols |-> 0, mine_count |-> 0]
    /\ rows = 0
    /\ cols = 0
    /\ mine_count = 0
    /\ mines = {}
    /\ revealed = {}
    /\ flags = {}
    /\ neighbor_counts = <<>>
    /\ last = NoCall
    /\ pc = "idle"
    /\ queue = <<>>
    /\ iters = 0
    /\ marks = <<>>
    /\ calls = 0
    /\ phase = "none"

\* Minesweeper(r, c, mc): the constructor raised before assigning any field
ConstructFail(r, c, mc) ==
    /\ status = "none"
    /\ init_error(r, c, mc) # ""
    /\ status' = "error"
    /\ error' = init_error(r, c, mc)
    /\ args' = [rows |-> r, cols |-> c, mine_count |-> mc]
    /\ UNCHANGED <<rows, cols, mine_count, mines, revealed, flags, neighbor_counts, last>>

\* Minesweeper(r, c, mc): success; random.sample picks mc distinct indices
ConstructOk(r, c, mc) ==
    /\ status = "none"
    /\ init_error(r, c, mc) = ""
    /\ \E choices \in SUBSET (0 .. r * c - 1) :
          /\ Cardinality(choices) = mc
          /\ mines' = place_mines(choices, c)
          /\ neighbor_counts' = compute_neighbor_counts(r, c, place_mines(choices, c))
    /\ status' = "ok"
    /\ error' = ""
    /\ args' = [rows |-> r, cols |-> c, mine_count |-> mc]
    /\ rows' = r
    /\ cols' = c
    /\ mine_count' = mc
    /\ revealed' = {}
    /\ flags' = {}
    /\ UNCHANGED last

Construct ==
    \E r \in -1 .. MaxRows, c \in -1 .. MaxCols, mc \in -1 .. MaxMines :
        /\ r * c <= MaxCells
        /\ \/ ConstructFail(r, c, mc)
           \/ ConstructOk(r, c, mc)

\* reveal that also drops the flag of the cell it was called on
Reveal_unflags(row, col) ==
    /\ status = "ok"
    /\ LET res == reveal(<<row, col>>, mines, revealed, flags, neighbor_counts, rows, cols)
       IN /\ revealed' = res.revealed
          /\ last' = [op |-> "reveal", row |-> row, col |-> col, ret |-> Bool(res.ret)]
    /\ flags' = flags \ {<<row, col>>}
    /\ UNCHANGED <<status, error, args, rows, cols, mine_count, mines, neighbor_counts>>

\* game.reveal(row, col), with the coordinates the driver lets through
Reveal(row, col) ==
    /\ status = "ok"
    /\ LET res == reveal(<<row, col>>, mines, revealed, flags, neighbor_counts, rows, cols)
       IN /\ revealed' = res.revealed
          /\ last' = [op |-> "reveal", row |-> row, col |-> col, ret |-> Bool(res.ret)]
    /\ UNCHANGED <<status, error, args, rows, cols, mine_count, mines, flags, neighbor_counts>>

\* game.toggle_flag(row, col), with the coordinates the driver lets through
ToggleFlag(row, col) ==
    /\ status = "ok"
    /\ flags' = toggle_flag(<<row, col>>, revealed, flags)
    /\ last' = [op |-> "toggle_flag", row |-> row, col |-> col, ret |-> "None"]
    /\ UNCHANGED <<status, error, args, rows, cols, mine_count, mines, revealed, neighbor_counts>>

\* game.is_won()
IsWon ==
    /\ status = "ok"
    /\ last' = [op |-> "is_won", row |-> 0, col |-> 0,
                ret |-> Bool(is_won(revealed, rows, cols, mine_count))]
    /\ UNCHANGED <<status, error, args, rows, cols, mine_count, mines, revealed, flags,
                   neighbor_counts>>

Next ==
    \/ Construct /\ UNCHANGED control
    \/ \E row \in 0 .. rows - 1, col \in 0 .. cols - 1 :
          Reveal(row, col) /\ UNCHANGED control
    \/ \E row \in 0 .. rows - 1, col \in 0 .. cols - 1 :
          ToggleFlag(row, col) /\ UNCHANGED control
    \/ IsWon /\ UNCHANGED control

Spec == Init /\ [][Next]_vars

(* ------------------- reveal, one loop iteration at a time --------------- *)
\* Minesweeper(r, c, mc) with valid arguments, on the larger boards
StepConstruct ==
    \E r \in 1 .. StepMaxRows, c \in 1 .. StepMaxCols, mc \in 1 .. MaxMines :
        /\ r * c <= StepMaxCells
        /\ ConstructOk(r, c, mc)
        /\ UNCHANGED control

\* game.toggle_flag(row, col) between two reveal calls
StepToggleFlag(row, col) ==
    /\ pc = "idle"
    /\ calls < StepMaxCalls
    /\ ToggleFlag(row, col)
    /\ calls' = calls + 1
    /\ UNCHANGED <<pc, queue, iters, marks, phase>>

\* game.reveal(row, col) up to its first return or to the head of its while-loop
RevealEnter(row, col) ==
    /\ status = "ok"
    /\ pc = "idle"
    /\ calls < StepMaxCalls
    /\ calls' = calls + 1
    /\ iters' = 0
    /\ LET cell == <<row, col>>
       IN IF cell \in flags \/ cell \in revealed
          THEN /\ last' = [op |-> "reveal", row |-> row, col |-> col, ret |-> "True"]
               /\ marks' = <<>>
               /\ UNCHANGED <<revealed, pc, queue>>
          ELSE IF cell \in mines
          THEN /\ revealed' = revealed \cup {cell}
               /\ last' = [op |-> "reveal", row |-> row, col |-> col, ret |-> "False"]
               /\ marks' = <<cell>>
               /\ UNCHANGED <<pc, queue>>
          ELSE /\ queue' = <<cell>>
               /\ pc' = "loop"
               /\ last' = [op |-> "reveal", row |-> row, col |-> col, ret |-> "None"]
               /\ marks' = <<>>
               /\ UNCHANGED revealed
    /\ UNCHANGED <<status, error, args, rows, cols, mine_count, mines, flags,
                   neighbor_counts, phase>>

\* one iteration of the while-loop of the reveal call in progress
LoopIter ==
    /\ pc = "loop"
    /\ queue # <<>>
    /\ LET st == LoopStep([queue |-> queue, revealed |-> revealed], flags,
                          neighbor_counts, rows, cols)
       IN /\ queue' = st.queue
          /\ revealed' = st.revealed
          /\ marks' = marks \o st.added
    /\ iters' = iters + 1
    /\ UNCHANGED <<status, error, args, rows, cols, mine_count, mines, flags,
                   neighbor_counts, last, pc, calls, phase>>

\* the while-loop finds the queue empty and reveal returns True
LoopExit ==
    /\ pc = "loop"
    /\ queue = <<>>
    /\ pc' = "idle"
    /\ last' = [last EXCEPT !.ret = "True"]
    /\ UNCHANGED <<status, error, args, rows, cols, mine_count, mines, revealed, flags,
                   neighbor_counts, queue, iters, marks, calls, phase>>

NextStep ==
    \/ StepConstruct
    \/ \E row \in 0 .. rows - 1, col \in 0 .. cols - 1 : StepToggleFlag(row, col)
    \/ \E row \in 0 .. rows - 1, col \in 0 .. cols - 1 : RevealEnter(row, col)
    \/ LoopIter
    \/ LoopExit

\* a call, once made, runs to its return: the engine is single-threaded
SpecStep == Init /\ [][NextStep]_vars /\ WF_vars(LoopIter) /\ WF_vars(LoopExit)

(* --------------------------- the driver loop ---------------------------- *)
\* main() constructs the game; it returns at once when the constructor raised
DriverStart ==
    /\ phase = "none"
    /\ Construct
    /\ phase' = IF status' = "ok" THEN "playing" ELSE "exit"
    /\ UNCHANGED <<pc, queue, iters, marks, calls>>

\* a loop iteration on the command "f row col" with in-range coordinates
DriverFlag(row, col) ==
    /\ phase = "playing"
    /\ ToggleFlag(row, col)
    /\ UNCHANGED control

\* DriverReveal that keeps looping after reveal returned False
DriverReveal_noLossBreak(row, col) ==
    /\ phase = "playing"
    /\ Reveal(row, col)
    /\ phase' = IF is_won(revealed', rows, cols, mine_count) THEN "won" ELSE "playing"
    /\ UNCHANGED <<pc, queue, iters, marks, calls>>

\* a loop iteration on the command "r row col" with in-range coordinates:
\* reveal, break on a mine, otherwise break when is_won()
DriverReveal(row, col) ==
    /\ phase = "playing"
    /\ Reveal(row, col)
    /\ phase' = IF last'.ret = "False" THEN "lost"
                ELSE IF is_won(revealed', rows, cols, mine_count) THEN "won"
                ELSE "playing"
    /\ UNCHANGED <<pc, queue, iters, marks, calls>>

\* a loop iteration on the command "q"
DriverQuit ==
    /\ phase = "playing"
    /\ phase' = "quit"
    /\ UNCHANGED <<engine, pc, queue, iters, marks, calls>>

NextDriver ==
    \/ DriverStart
    \/ \E row \in 0 .. rows - 1, col \in 0 .. cols - 1 : DriverFlag(row, col)
    \/ \E row \in 0 .. rows - 1, col \in 0 .. cols - 1 : DriverReveal(row, col)
    \/ DriverQuit

SpecDriver == Init /\ [][NextDriver]_vars

(* ------------------------------ claims --------------------------------- *)
\* the cell a recorded call was made on
CallCell(l) == <<l.row, l.col>>

NonMines == Cells(rows, cols) \ mines

\* C1: in every reachable state no cell is both revealed and flagged.
C1_FlagRevealExclusive == revealed \cap flags = {}

\* C1 witness: toggle_flag was just called on a revealed cell while flags exist.
C1_Witness ==
    /\ last.op = "toggle_flag"
    /\ CallCell(last) \in revealed
    /\ flags # {}

\* C2 as stated: in every reachable state, also after a reveal returned False,
\* is_won() is true iff every non-mine cell is revealed.
C2_Original ==
    status = "ok" =>
        (is_won(revealed, rows, cols, mine_count) <=> NonMines \subseteq revealed)

\* C2 amended: in every reachable state in which no mine is revealed, is_won()
\* is true iff every non-mine cell is revealed.
C2_WonIffAllSafeRevealed ==
    (status = "ok" /\ revealed \cap mines = {}) =>
        (is_won(revealed, rows, cols, mine_count) <=> NonMines \subseteq revealed)

\* C2 witness: is_won() was just called and returned True with no mine revealed.
C2_Witness ==
    /\ last.op = "is_won"
    /\ last.ret = "True"
    /\ revealed \cap mines = {}
    /\ NonMines \subseteq revealed

\* reveal applied to the current state
RevealNow(cell) == reveal(cell, mines, revealed, flags, neighbor_counts, rows, cols)

\* reveal applied to the state a first reveal of the same cell leaves behind
RevealAgain(cell) ==
    reveal(cell, mines, RevealNow(cell).revealed, flags, neighbor_counts, rows, cols)

\* a mine that is neither flagged nor revealed
FreshMine(cell) == cell \in mines /\ cell \notin flags /\ cell \notin revealed

\* C3 as stated: from every reachable state and for every cell, a second
\* reveal(r,c) right after a first leaves the revealed set unchanged and returns
\* what the first call returned.
C3_Original ==
    status = "ok" =>
        \A cell \in Cells(rows, cols) :
            /\ RevealAgain(cell).revealed = RevealNow(cell).revealed
            /\ RevealAgain(cell).ret = RevealNow(cell).ret

\* C3 amended: a second reveal(r,c) right after a first leaves the revealed set
\* unchanged and returns True; that is the first call's result except when the
\* first call was made on an unflagged, unrevealed mine (and returned False).
C3_SecondRevealNoOp ==
    status = "ok" =>
        \A cell \in Cells(rows, cols) :
            /\ RevealAgain(cell).revealed = RevealNow(cell).revealed
            /\ RevealAgain(cell).ret = TRUE
            /\ RevealAgain(cell).ret = RevealNow(cell).ret <=> ~FreshMine(cell)

\* C3 witness: reveal was just called on an already revealed mine and returned True.
C3_Witness ==
    /\ last.op = "reveal"
    /\ last.ret = "True"
    /\ CallCell(last) \in mines \cap revealed

\* C4: reveal on a cell that is flagged or already revealed returns True and
\* changes neither the revealed set, the flags, the mines nor the counts,
\* whether or not the cell is a mine.
C4_RevealGuardedNoOp ==
    [][/\ status = "ok" =>
            \A cell \in flags \cup revealed :
                RevealNow(cell) = [revealed |-> revealed, ret |-> TRUE]
       /\ (last'.op = "reveal" /\ CallCell(last') \in flags \cup revealed)
            => /\ last'.ret = "True"
               /\ revealed' = revealed
               /\ flags' = flags
               /\ mines' = mines
               /\ neighbor_counts' = neighbor_counts]_vars

\* C4 witness: reveal was just called on a flagged mine, which is still unrevealed.
C4_Witness ==
    /\ last.op = "reveal"
    /\ last.ret = "True"
    /\ CallCell(last) \in mines \cap flags
    /\ CallCell(last) \notin revealed

\* C5: reveal returns False exactly when the cell is a mine that is neither
\* flagged nor revealed at the call, and then the revealed set grows by exactly
\* that cell.
C5_FalseIffFreshMine ==
    status = "ok" =>
        \A cell \in Cells(rows, cols) :
            /\ RevealNow(cell).ret = FALSE <=> FreshMine(cell)
            /\ FreshMine(cell) => RevealNow(cell).revealed = revealed \cup {cell}

\* C5 witness: reveal just returned False on a mine that has a safe neighbour
\* which is neither revealed nor flagged.
C5_Witness ==
    /\ last.op = "reveal"
    /\ last.ret = "False"
    /\ CallCell(last) \in revealed
    /\ \E n \in Range(neighbors(last.row, last.col, rows, cols)) :
          n \notin revealed /\ n \notin flags /\ n \notin mines

\* the in-bounds neighbours of a set of cells
Around(S) == UNION {Range(neighbors(s[1], s[2], rows, cols)) : s \in S}

\* the cells with a neighbour count of zero
ZeroCells == {cell \in DOMAIN neighbor_counts : neighbor_counts[cell] = 0}

\* the connected region of zero-count cells containing the cells of S
RECURSIVE ZeroRegion(_)
ZeroRegion(S) ==
    LET grown == S \cup (Around(S) \cap ZeroCells)
    IN IF grown = S THEN S ELSE ZeroRegion(grown)

\* what a flood fill from start may reveal: the zero-count region of start and
\* the cells adjacent to it; only start itself when its count is not zero
Allowed(start) ==
    IF start \in ZeroCells
    THEN ZeroRegion({start}) \cup Around(ZeroRegion({start}))
    ELSE {start}

\* C6: a flood-fill reveal (on an unflagged, unrevealed non-mine cell) adds no
\* cell that is flagged at the call and no cell outside the connected zero-count
\* region of the start cell plus the cells adjacent to that region.
C6_FloodFillBounded ==
    [][(/\ last'.op = "reveal"
        /\ CallCell(last') \notin mines
        /\ CallCell(last') \notin flags
        /\ CallCell(last') \notin revealed)
         => /\ (revealed' \ revealed) \cap flags = {}
            /\ (revealed' \ revealed) \subseteq Allowed(CallCell(last'))]_vars

\* C6 witness: a reveal on a zero-count cell has cascaded, a flagged cell next to
\* its region stayed unrevealed, and a safe cell outside the region is unrevealed.
C6_Witness ==
    /\ last.op = "reveal"
    /\ CallCell(last) \in ZeroCells \cap revealed
    /\ Cardinality(revealed) >= 3
    /\ \E f \in flags : f \in Allowed(CallCell(last)) /\ f \notin mines
    /\ \E o \in NonMines : o \notin Allowed(CallCell(last)) /\ o \notin revealed

\* C7: no step of any operation removes a cell from the revealed set.
C7_RevealedMonotone == [][revealed \subseteq revealed']_vars

\* C7 witness: a mine was revealed by a call made after other cells were revealed.
C7_Witness ==
    /\ last.op = "reveal"
    /\ last.ret = "False"
    /\ Cardinality(revealed) >= 3

\* C8: a reveal call leaves the mines, the flags and the neighbour counts as
\* they were, whatever it returns.
C8_RevealFrame ==
    [][last'.op = "reveal" =>
         /\ mines' = mines
         /\ flags' = flags
         /\ neighbor_counts' = neighbor_counts]_vars

\* C8 witness: a reveal has cascaded while some cell is flagged.
C8_Witness ==
    /\ last.op = "reveal"
    /\ last.ret = "True"
    /\ CallCell(last) \in revealed
    /\ Cardinality(revealed) >= 2
    /\ flags # {}

\* C9: toggle_flag changes nothing on a revealed cell; otherwise it flips the
\* flag of exactly that cell and leaves the other flags, the revealed set, the
\* mines and the counts alone, and calling it again on the resulting state gives
\* back the flags it started from.
C9_ToggleFlagEffect ==
    [][last'.op = "toggle_flag" =>
         LET cell == CallCell(last')
         IN /\ revealed' = revealed
            /\ mines' = mines
            /\ neighbor_counts' = neighbor_counts
            /\ cell \in revealed => flags' = flags
            /\ cell \notin revealed =>
                  /\ flags' \ {cell} = flags \ {cell}
                  /\ cell \in flags' <=> cell \notin flags
            /\ toggle_flag(cell, revealed', flags') = flags]_vars

\* C9 witness: toggle_flag just removed the flag of an unrevealed cell while
\* another cell is flagged and some cell is revealed.
C9_Witness ==
    /\ last.op = "toggle_flag"
    /\ CallCell(last) \notin revealed
    /\ CallCell(last) \notin flags
    /\ flags # {}
    /\ revealed # {}

\* the state a constructor that raised leaves behind: no field was assigned
NoEngineState ==
    /\ rows = 0 /\ cols = 0 /\ mine_count = 0
    /\ mines = {} /\ revealed = {} /\ flags = {}
    /\ neighbor_counts = <<>>
    /\ last = NoCall

\* C10: construction raises the dimensions error when rows <= 0 or cols <= 0,
\* the (different) mine-count error when the dimensions are positive and
\* mine_count <= 0 or mine_count >= rows*cols, succeeds otherwise, and a failed
\* construction leaves no engine state.
C10_ConstructionOutcome ==
    status # "none" =>
        LET r == args.rows
            c == args.cols
            mc == args.mine_count
            badDim == r <= 0 \/ c <= 0
            badCount == ~badDim /\ (mc <= 0 \/ mc >= r * c)
        IN /\ DimensionsMessage # MineCountMessage
           /\ badDim => (status = "error" /\ error = DimensionsMessage)
           /\ badCount => (status = "error" /\ error = MineCountMessage)
           /\ (~badDim /\ ~badCount) =>
                  (status = "ok" /\ error = "" /\ rows = r /\ cols = c /\ mine_count = mc)
           /\ status = "error" => NoEngineState

\* C10 witness: construction with mine_count = rows*cols raised the mine-count error.
C10_Witness ==
    /\ status = "error"
    /\ error = MineCountMessage
    /\ args.rows > 0 /\ args.cols > 0
    /\ args.mine_count = args.rows * args.cols

Adjacent(a, b) ==
    /\ a # b
    /\ a[1] - b[1] \in {-1, 0, 1}
    /\ a[2] - b[2] \in {-1, 0, 1}

WonNow == is_won(revealed, rows, cols, mine_count)

Open == Cells(rows, cols) \ (revealed \cup flags)

\* the open zero-count cells joined to S by open zero-count cells
RECURSIVE OpenZeroRegion(_)
OpenZeroRegion(S) ==
    LET grown == S \cup (Around(S) \cap ZeroCells \cap Open)
    IN IF grown = S THEN S ELSE OpenZeroRegion(grown)

\* the cells a path of open cells from start reaches when every cell of the
\* path but the last has a count of zero
Reach(start) ==
    IF start \in ZeroCells
    THEN OpenZeroRegion({start}) \cup (Around(OpenZeroRegion({start})) \cap Open)
    ELSE {start}

C18_MinesOnlyByDirectReveal ==
    [][(revealed' \ revealed) \cap mines # {} =>
            /\ last'.op = "reveal"
            /\ last'.ret = "False"
            /\ revealed' \ revealed = {CallCell(last')}]_vars

\* C18 witness: a flood fill has returned True having revealed a cell next to
\* a mine, and no mine is revealed.
C18_Witness ==
    /\ last.op = "reveal"
    /\ last.ret = "True"
    /\ CallCell(last) \in ZeroCells \cap revealed
    /\ revealed \cap mines = {}
    /\ \E m \in mines : \E c \in revealed : Adjacent(c, m)

\* no cell occurs twice in a sequence
NoRepeat(seq) == \A i, j \in DOMAIN seq : i # j => seq[i] # seq[j]

\* C15: every reveal call terminates (its while-loop reaches the empty queue and
\* returns), and within one call no cell is marked revealed twice.
C15_RevealTerminates ==
    /\ [](NoRepeat(marks))
    /\ (pc = "loop") ~> (pc = "idle")

\* C15 witness: a flood fill has returned after revealing at least three cells
\* and taking more cells off the queue than it revealed (duplicates were queued).
C15_Witness ==
    /\ pc = "idle"
    /\ last.op = "reveal"
    /\ last.ret = "True"
    /\ Len(marks) >= 3
    /\ iters > Len(marks)

\* C16: with in-bounds calls only, every coordinate in the mines, the revealed
\* set, the flags and the work queue lies inside the grid.
C16_CoordinatesInBounds ==
    status = "ok" =>
        (mines \cup revealed \cup flags \cup Range(queue)) \subseteq Cells(rows, cols)

\* C16 witness: a flood fill is in progress with several cells queued, among
\* them a cell on the last row or column of the grid, while a cell is flagged.
C16_Witness ==
    /\ pc = "loop"
    /\ Len(queue) >= 3
    /\ flags # {}
    /\ \E i \in DOMAIN queue : queue[i][1] = rows - 1 \/ queue[i][2] = cols - 1

\* C19 as stated: a reveal call takes at most rows*cols cells off its queue.
C19_Original == status = "ok" => iters <= rows * cols

\* C19 amended: a reveal call marks at most rows*cols cells revealed, and the
\* cells it has taken off its queue plus those still queued number at most one
\* plus eight for every cell it has marked.
C19_IterationsBounded ==
    status = "ok" =>
        /\ Len(marks) <= rows * cols
        /\ iters + Len(queue) <= 1 + 8 * Len(marks)

\* C19 witness: a flood fill has returned after more iterations than the grid
\* has cells.
C19_Witness ==
    /\ pc = "idle"
    /\ last.op = "reveal"
    /\ last.ret = "True"
    /\ iters > rows * cols

\* C20: under the driver loop (in-range calls only, no engine call after a
\* reveal returned False or after is_won() was seen True), no mine is revealed
\* while the game continues, the revealed set never has more than
\* rows*cols - mine_count cells, and victory is reported only with every
\* non-mine cell revealed and no mine revealed.
C20_DriverProtocol ==
    status = "ok" =>
        /\ phase = "playing" => revealed \cap mines = {}
        /\ Cardinality(revealed) <= rows * cols - mine_count
        /\ phase = "won" => (NonMines \subseteq revealed /\ revealed \cap mines = {})

\* C20 witness: the driver has reported victory while a cell is still flagged.
C20_Witness ==
    /\ phase = "won"
    /\ flags # {}
    /\ Cardinality(revealed) >= 2

=============================================================================
